---- MODULE Spec2Model ----
(***************************************************************************)
(* Step-level model of src/src/main.py: merge_sort(arr) and                *)
(* merge(left, right), executed on a heap of Python list objects with an   *)
(* explicit call stack.                                                    *)
(*                                                                         *)
(* A list element is a record [key, tag].  key is the value the program    *)
(* compares with `<`; tag is the position the element had in the argument  *)
(* of the outermost call and is never read by the program: it only lets    *)
(* the properties tell equal-valued elements apart.                        *)
(***************************************************************************)
EXTENDS Integers, Sequences, FiniteSets

VARIABLES heap, stack, ret, entry, round, arg, arg0, first, maxDepth, comparisons

vars == <<heap, stack, ret, entry, round, arg, arg0, first, maxDepth, comparisons>>

(* ------------------------------ bounds --------------------------------- *)

MaxLen == 5

MaxKey == 3

Keys == 1..MaxKey

(* ------------------------- Python list helpers ------------------------- *)

\* s[k] with Python's 0-based index
At(s, k) == s[k + 1]

\* s[:k]
SliceToShort(s, k) == SubSeq(s, 1, k - 1)
SliceTo(s, k) == SubSeq(s, 1, k)

\* s[k:]
SliceFromSkip(s, k) == SubSeq(s, k + 2, Len(s))
SliceFrom(s, k) == SubSeq(s, k + 1, Len(s))

\* the `<` of line 47, on the compared value only
LessReversed(a, b) == a.key > b.key
Less(a, b) == a.key < b.key

\* len(arr) <= 1, line 27
BaseCaseTwo(s) == Len(s) <= 2
BaseCase(s) == Len(s) <= 1

\* len(arr) // 2, line 31
MidSkewed(s) == 1
Mid(s) == Len(s) \div 2

\* i < len(left) and j < len(right), line 46
LoopCond(l, r, i, j) == i < Len(l) /\ j < Len(r)

\* number of element comparisons one loop iteration performs (line 47)
ComparisonsThreeWay(a, b) == IF Less(a, b) THEN 1 ELSE 2
Comparisons(a, b) == 1

\* result.append(x)
ListAppend(h, r, x) == [h EXCEPT ![r] = Append(@, x)]

\* result.extend(s)
ListExtend(h, r, s) == [h EXCEPT ![r] = @ \o s]

\* a new list object holding s; its reference is Len(h) + 1
Alloc(h, s) == Append(h, s)

(* ------------------------------ frames --------------------------------- *)

MergeSortFrame(a) ==
    [fn |-> "merge_sort", pc |-> "check", arr |-> a, mid |-> 0,
     left |-> 0, right |-> 0, result |-> 0, i |-> 0, j |-> 0,
     cmps |-> 0, left0 |-> <<>>, right0 |-> <<>>]

MergeFrame(l, r, h) ==
    [fn |-> "merge", pc |-> "init", arr |-> 0, mid |-> 0,
     left |-> l, right |-> r, result |-> 0, i |-> 0, j |-> 0,
     cmps |-> 0, left0 |-> h[l], right0 |-> h[r]]

Top == stack[Len(stack)]

SetTop(f) == [stack EXCEPT ![Len(stack)] = f]

Pop == SubSeq(stack, 1, Len(stack) - 1)

\* number of merge_sort frames below the newest one
Depth(st) == Cardinality({k \in 1..Len(st) : st[k].fn = "merge_sort"}) - 1

\* `return ref`: pop the frame and store ref where the caller expects it
Return(ref) ==
    IF Len(stack) = 1
    THEN /\ stack' = <<>>
         /\ ret' = ref
    ELSE LET caller == stack[Len(stack) - 1]
             resumed == CASE caller.pc = "wait_left"  ->
                                [caller EXCEPT !.left = ref, !.pc = "call_right"]
                          [] caller.pc = "wait_right" ->
                                [caller EXCEPT !.right = ref, !.pc = "call_merge"]
                          [] caller.pc = "wait_merge" ->
                                [caller EXCEPT !.result = ref, !.pc = "return"]
         IN /\ stack' = [Pop EXCEPT ![Len(stack) - 1] = resumed]
            /\ ret' = ret

(* ------------------------------- inputs -------------------------------- *)

SeqsUpTo(n) == UNION {[1..m -> Keys] : m \in 0..n}

Tagged(s, off) == [k \in 1..Len(s) |-> [key |-> s[k], tag |-> off + k]]

Sorted(s) == \A k \in 1..(Len(s) - 1) : s[k].key <= s[k + 1].key

InitSort ==
    \E S \in SeqsUpTo(MaxLen) :
        /\ entry = "merge_sort"
        /\ heap = <<Tagged(S, 0)>>
        /\ stack = <<MergeSortFrame(1)>>
        /\ arg = 1
        /\ arg0 = Tagged(S, 0)

InitMerge ==
    \E A \in SeqsUpTo(MaxLen) : \E B \in SeqsUpTo(MaxLen - Len(A)) :
        /\ Sorted(Tagged(A, 0))
        /\ Sorted(Tagged(B, 0))
        /\ entry = "merge"
        /\ heap = <<Tagged(A, 0), Tagged(B, Len(A))>>
        /\ stack = <<MergeFrame(1, 2, heap)>>
        /\ arg = 0
        /\ arg0 = Tagged(A, 0) \o Tagged(B, Len(A))

Init ==
    /\ InitSort \/ InitMerge
    /\ ret = 0
    /\ round = 1
    /\ first = 0
    /\ maxDepth = 0
    /\ comparisons = 0

(* ------------------------------ merge_sort ----------------------------- *)

\* lines 27-28: if len(arr) <= 1: return arr
MergeSortBase ==
    /\ stack # <<>>
    /\ Top.fn = "merge_sort" /\ Top.pc = "check"
    /\ BaseCase(heap[Top.arr])
    /\ Return(Top.arr)
    /\ UNCHANGED <<heap, entry, round, arg, arg0, first, maxDepth, comparisons>>

\* line 31: mid = len(arr) // 2
MergeSortSplit ==
    /\ stack # <<>>
    /\ Top.fn = "merge_sort" /\ Top.pc = "check"
    /\ ~BaseCase(heap[Top.arr])
    /\ stack' = SetTop([Top EXCEPT !.mid = Mid(heap[Top.arr]), !.pc = "call_left"])
    /\ UNCHANGED <<heap, ret, entry, round, arg, arg0, first, maxDepth, comparisons>>

\* line 32: left_half = merge_sort(arr[:mid])  (the call; the slice is a new list)
MergeSortCallLeft ==
    /\ stack # <<>>
    /\ Top.fn = "merge_sort" /\ Top.pc = "call_left"
    /\ heap' = Alloc(heap, SliceTo(heap[Top.arr], Top.mid))
    /\ stack' = Append(SetTop([Top EXCEPT !.pc = "wait_left"]),
                       MergeSortFrame(Len(heap) + 1))
    /\ maxDepth' = IF Depth(stack') > maxDepth THEN Depth(stack') ELSE maxDepth
    /\ UNCHANGED <<ret, entry, round, arg, arg0, first, comparisons>>

\* line 33: right_half = merge_sort(arr[mid:])
MergeSortCallRight ==
    /\ stack # <<>>
    /\ Top.fn = "merge_sort" /\ Top.pc = "call_right"
    /\ heap' = Alloc(heap, SliceFrom(heap[Top.arr], Top.mid))
    /\ stack' = Append(SetTop([Top EXCEPT !.pc = "wait_right"]),
                       MergeSortFrame(Len(heap) + 1))
    /\ maxDepth' = IF Depth(stack') > maxDepth THEN Depth(stack') ELSE maxDepth
    /\ UNCHANGED <<ret, entry, round, arg, arg0, first, comparisons>>

\* line 35: merge(left_half, right_half)  (the call)
MergeSortCallMerge ==
    /\ stack # <<>>
    /\ Top.fn = "merge_sort" /\ Top.pc = "call_merge"
    /\ stack' = Append(SetTop([Top EXCEPT !.pc = "wait_merge"]),
                       MergeFrame(Top.left, Top.right, heap))
    /\ UNCHANGED <<heap, ret, entry, round, arg, arg0, first, maxDepth, comparisons>>

\* line 35: return <value of merge(...)>
MergeSortReturn ==
    /\ stack # <<>>
    /\ Top.fn = "merge_sort" /\ Top.pc = "return"
    /\ Return(Top.result)
    /\ UNCHANGED <<heap, entry, round, arg, arg0, first, maxDepth, comparisons>>

(* -------------------------------- merge -------------------------------- *)

\* lines 43-44: result = []; i = j = 0
MergeInit ==
    /\ stack # <<>>
    /\ Top.fn = "merge" /\ Top.pc = "init"
    /\ heap' = Alloc(heap, <<>>)
    /\ stack' = SetTop([Top EXCEPT !.result = Len(heap) + 1,
                                   !.i = 0, !.j = 0, !.pc = "loop"])
    /\ UNCHANGED <<ret, entry, round, arg, arg0, first, maxDepth, comparisons>>

\* lines 46-49: loop test true, left[i] < right[j]: append left[i]; i += 1
MergeTakeLeftPop ==
    /\ stack # <<>>
    /\ Top.fn = "merge" /\ Top.pc = "loop"
    /\ LoopCond(heap[Top.left], heap[Top.right], Top.i, Top.j)
    /\ Less(At(heap[Top.left], Top.i), At(heap[Top.right], Top.j))
    /\ heap' = [ListAppend(heap, Top.result, At(heap[Top.left], Top.i))
                   EXCEPT ![Top.left] = Tail(@)]
    /\ stack' = SetTop([Top EXCEPT !.cmps = @ + 1])
    /\ comparisons' = comparisons + 1
    /\ UNCHANGED <<ret, entry, round, arg, arg0, first, maxDepth>>
MergeTakeLeft ==
    /\ stack # <<>>
    /\ Top.fn = "merge" /\ Top.pc = "loop"
    /\ LoopCond(heap[Top.left], heap[Top.right], Top.i, Top.j)
    /\ Less(At(heap[Top.left], Top.i), At(heap[Top.right], Top.j))
    /\ heap' = ListAppend(heap, Top.result, At(heap[Top.left], Top.i))
    /\ LET c == Comparisons(At(heap[Top.left], Top.i), At(heap[Top.right], Top.j))
       IN /\ stack' = SetTop([Top EXCEPT !.i = @ + 1, !.cmps = @ + c])
          /\ comparisons' = comparisons + c
    /\ UNCHANGED <<ret, entry, round, arg, arg0, first, maxDepth>>

\* lines 46-47, 50-52: loop test true, not left[i] < right[j]:
\* append right[j]; j += 1
MergeTakeRight ==
    /\ stack # <<>>
    /\ Top.fn = "merge" /\ Top.pc = "loop"
    /\ LoopCond(heap[Top.left], heap[Top.right], Top.i, Top.j)
    /\ ~Less(At(heap[Top.left], Top.i), At(heap[Top.right], Top.j))
    /\ heap' = ListAppend(heap, Top.result, At(heap[Top.right], Top.j))
    /\ LET c == Comparisons(At(heap[Top.left], Top.i), At(heap[Top.right], Top.j))
       IN /\ stack' = SetTop([Top EXCEPT !.j = @ + 1, !.cmps = @ + c])
          /\ comparisons' = comparisons + c
    /\ UNCHANGED <<ret, entry, round, arg, arg0, first, maxDepth>>

\* line 46: loop test false
MergeLoopExit ==
    /\ stack # <<>>
    /\ Top.fn = "merge" /\ Top.pc = "loop"
    /\ ~LoopCond(heap[Top.left], heap[Top.right], Top.i, Top.j)
    /\ stack' = SetTop([Top EXCEPT !.pc = "extend_left"])
    /\ UNCHANGED <<heap, ret, entry, round, arg, arg0, first, maxDepth, comparisons>>

\* line 56: result.extend(left[i:])
MergeExtendLeft ==
    /\ stack # <<>>
    /\ Top.fn = "merge" /\ Top.pc = "extend_left"
    /\ heap' = ListExtend(heap, Top.result, SliceFrom(heap[Top.left], Top.i))
    /\ stack' = SetTop([Top EXCEPT !.pc = "extend_right"])
    /\ UNCHANGED <<ret, entry, round, arg, arg0, first, maxDepth, comparisons>>

\* line 57: result.extend(right[j:])
MergeExtendRightSkipped ==
    /\ stack # <<>>
    /\ Top.fn = "merge" /\ Top.pc = "extend_right"
    /\ stack' = SetTop([Top EXCEPT !.pc = "return"])
    /\ UNCHANGED <<heap, ret, entry, round, arg, arg0, first, maxDepth, comparisons>>
MergeExtendRight ==
    /\ stack # <<>>
    /\ Top.fn = "merge" /\ Top.pc = "extend_right"
    /\ heap' = ListExtend(heap, Top.result, SliceFrom(heap[Top.right], Top.j))
    /\ stack' = SetTop([Top EXCEPT !.pc = "return"])
    /\ UNCHANGED <<ret, entry, round, arg, arg0, first, maxDepth, comparisons>>

\* line 58: return result
MergeReturn ==
    /\ stack # <<>>
    /\ Top.fn = "merge" /\ Top.pc = "return"
    /\ Return(Top.result)
    /\ UNCHANGED <<heap, entry, round, arg, arg0, first, maxDepth, comparisons>>

(* ------------------------------- caller -------------------------------- *)

\* the outer call of merge_sort(merge_sort(S)): the list the first call
\* returned is passed to a second call
SortAgain ==
    /\ stack = <<>>
    /\ entry = "merge_sort" /\ round = 1
    /\ round' = 2
    /\ first' = ret
    /\ arg' = ret
    /\ arg0' = heap[ret]
    /\ stack' = <<MergeSortFrame(ret)>>
    /\ ret' = 0
    /\ maxDepth' = 0
    /\ comparisons' = 0
    /\ UNCHANGED <<heap, entry>>

Next ==
    \/ MergeSortBase
    \/ MergeSortSplit
    \/ MergeSortCallLeft
    \/ MergeSortCallRight
    \/ MergeSortCallMerge
    \/ MergeSortReturn
    \/ MergeInit
    \/ MergeTakeLeft
    \/ MergeTakeRight
    \/ MergeLoopExit
    \/ MergeExtendLeft
    \/ MergeExtendRight
    \/ MergeReturn
    \/ SortAgain

Spec == Init /\ [][Next]_vars

\* the interpreter always runs the next statement
FairSpec == Spec /\ WF_vars(Next)

\* the call under way has returned
Returned == stack = <<>>

\* nothing is left to run
Done == Returned /\ (entry = "merge" \/ round = 2)

TypeOK ==
    /\ entry \in {"merge_sort", "merge"}
    /\ round \in {1, 2}
    /\ ret \in 0..Len(heap)
    /\ Len(stack) <= MaxLen + 2

(* ----------------------------- vocabulary ------------------------------ *)

KeysOf(s) == [k \in 1..Len(s) |-> s[k].key]

Count(s, v) == Cardinality({k \in 1..Len(s) : s[k].key = v})

\* position of element e (tags are unique) in s
PosOf(s, e) == CHOOSE k \in 1..Len(s) : s[k] = e

\* ceil(log2 n) for n >= 1, by its definition
CeilLog2(n) == CHOOSE k \in 0..n : 2^k >= n /\ (k = 0 \/ 2^(k - 1) < n)

SortReturned == Returned /\ entry = "merge_sort"

\* merge is at line 58, about to return result
MergeReturning == stack # <<>> /\ Top.fn = "merge" /\ Top.pc = "return"

\* merge is at line 46 with both cursors inside their lists
MergeComparing ==
    /\ stack # <<>> /\ Top.fn = "merge" /\ Top.pc = "loop"
    /\ LoopCond(heap[Top.left], heap[Top.right], Top.i, Top.j)

(* -------------------------------- claims ------------------------------- *)

\* C1: the list merge_sort returns is non-decreasing: every adjacent pair
\* of the result has earlier <= later.
C1_SortedResult == SortReturned => Sorted(heap[ret])

C1_Witness ==
    /\ SortReturned /\ round = 1
    /\ Len(arg0) >= 4 /\ ~Sorted(arg0)
    /\ Sorted(heap[ret])

\* C2: the list merge_sort returns is a permutation of its argument: same
\* length, and every value occurs as often as in the argument.
C2_Permutation ==
    SortReturned =>
        /\ Len(heap[ret]) = Len(arg0)
        /\ \A v \in Keys : Count(heap[ret], v) = Count(arg0, v)

C2_Witness ==
    /\ SortReturned /\ round = 1
    /\ ~Sorted(arg0)
    /\ \E v \in Keys : Count(arg0, v) >= 2
    /\ Len(heap[ret]) = Len(arg0)

\* C3: merge_sort is stable: two elements of the argument that compare
\* equal appear in the result in the order they had in the argument.
C3_Stable ==
    SortReturned =>
        \A p, q \in 1..Len(arg0) :
            (p < q /\ arg0[p].key = arg0[q].key)
                => PosOf(heap[ret], arg0[p]) < PosOf(heap[ret], arg0[q])

\* C4: when left[i] and right[j] compare equal, merge appends left[i],
\* advances i and leaves j unchanged.
C4_TieTakesLeft ==
    [][ (MergeComparing
            /\ At(heap[Top.left], Top.i).key = At(heap[Top.right], Top.j).key)
        => /\ heap'[Top.result]
                = Append(heap[Top.result], At(heap[Top.left], Top.i))
           /\ stack'[Len(stack)].i = Top.i + 1
           /\ stack'[Len(stack)].j = Top.j ]_vars

\* C5: merge of two non-decreasing lists (either may be empty) returns a
\* non-decreasing list.
C5_MergeSorted ==
    (MergeReturning /\ Sorted(Top.left0) /\ Sorted(Top.right0))
        => Sorted(heap[Top.result])

C5_Witness ==
    /\ MergeReturning /\ entry = "merge"
    /\ Len(Top.left0) >= 2 /\ Len(Top.right0) >= 2
    /\ Top.left0[1].key < Top.right0[1].key
    /\ Top.right0[1].key < Top.left0[2].key
    /\ Sorted(heap[Top.result])

\* C6: merge of two sorted lists returns a list of length
\* len(left) + len(right) holding exactly the elements of left followed by
\* right, none dropped or duplicated, the appended suffix included.
C6_MergePermutation ==
    (MergeReturning /\ Sorted(Top.left0) /\ Sorted(Top.right0))
        => /\ Len(heap[Top.result]) = Len(Top.left0) + Len(Top.right0)
           /\ \A v \in Keys :
                Count(heap[Top.result], v) = Count(Top.left0 \o Top.right0, v)
           /\ \A k \in 1..Len(Top.left0 \o Top.right0) :
                \E m \in 1..Len(heap[Top.result]) :
                    heap[Top.result][m] = (Top.left0 \o Top.right0)[k]

C6_Witness ==
    /\ MergeReturning /\ entry = "merge"
    /\ Top.i = Len(Top.left0) /\ Top.i >= 1
    /\ Len(Top.right0) - Top.j >= 2
    /\ Len(heap[Top.result]) = Len(Top.left0) + Len(Top.right0)

\* C7: sorting the list merge_sort returned gives a list with the same
\* values at every position.
C7_Idempotent ==
    (SortReturned /\ round = 2) => KeysOf(heap[ret]) = KeysOf(heap[first])

C7_Witness ==
    /\ SortReturned /\ round = 2
    /\ Len(arg0) >= 4
    /\ \E v \in Keys : Count(arg0, v) = 1
    /\ \E v \in Keys : Count(arg0, v) >= 2
    /\ KeysOf(heap[ret]) = KeysOf(arg0)

\* C8: the argument of merge_sort holds the same elements in the same
\* order during and after the call, and the lists left and right handed to
\* merge are unchanged while merge runs and when it returns.
C8_ArgumentsUnchanged ==
    /\ entry = "merge_sort" => heap[arg] = arg0
    /\ \A k \in 1..Len(stack) :
            stack[k].fn = "merge"
                => /\ heap[stack[k].left] = stack[k].left0
                   /\ heap[stack[k].right] = stack[k].right0

C8_Witness ==
    /\ MergeReturning /\ entry = "merge_sort" /\ Len(stack) = 2
    /\ Len(arg0) >= 4 /\ ~Sorted(arg0)
    /\ Top.i >= 1 /\ Top.j >= 1
    /\ heap[arg] = arg0
    /\ heap[Top.left] = Top.left0

\* the split of every merge_sort call past line 31
SplitOK ==
    \A k \in 1..Len(stack) :
        (stack[k].fn = "merge_sort" /\ stack[k].pc # "check")
            => LET n == Len(heap[stack[k].arr])
                   mid == stack[k].mid
               IN /\ n >= 2
                  /\ 2 * mid <= n /\ n < 2 * mid + 2
                  /\ 1 <= mid /\ mid < n
                  /\ 1 <= n - mid /\ n - mid < n
                  /\ stack[k].pc = "wait_left"
                        => Len(heap[stack[k + 1].arr]) = mid
                  /\ stack[k].pc = "wait_right"
                        => Len(heap[stack[k + 1].arr]) = n - mid

\* C9: merge_sort terminates; a call on n >= 2 elements splits into
\* floor(n/2) and n - floor(n/2) elements, both in 1..n-1; a call on at
\* most one element returns its argument; the deepest recursion on n >= 1
\* elements is ceil(log2 n).
C9_Terminates ==
    /\ <>Done
    /\ []SplitOK
    /\ [][ (stack # <<>> /\ Top.fn = "merge_sort" /\ Top.pc = "check"
                /\ Len(heap[Top.arr]) <= 1)
            => /\ heap' = heap
               /\ Len(stack') = Len(stack) - 1
               /\ IF Len(stack) = 1
                  THEN ret' = Top.arr
                  ELSE Top.arr \in {stack'[Len(stack')].left,
                                    stack'[Len(stack')].right} ]_vars
    /\ []((SortReturned /\ Len(arg0) >= 1)
            => maxDepth = CeilLog2(Len(arg0)))

C9_Witness ==
    /\ Done /\ entry = "merge_sort"
    /\ Len(arg0) >= 5
    /\ maxDepth = 3

\* C10: one merge performs at most len(left) + len(right) - 1 comparisons
\* when both lists are non-empty and none when either is empty; merge_sort
\* on n >= 1 elements performs at most n * ceil(log2 n) comparisons.
C10_ComparisonBound ==
    /\ MergeReturning =>
          IF Len(Top.left0) >= 1 /\ Len(Top.right0) >= 1
          THEN Top.cmps <= Len(Top.left0) + Len(Top.right0) - 1
          ELSE Top.cmps = 0
    /\ (SortReturned /\ Len(arg0) >= 1)
          => comparisons <= Len(arg0) * CeilLog2(Len(arg0))

C10_Witness ==
    /\ SortReturned /\ round = 1
    /\ Len(arg0) >= 5
    /\ comparisons >= 8

====
